---- MODULE Spec2Model ----
(***************************************************************************)
(* The request pipelines of ApiChatService and ApiAuthService and the      *)
(* session-token lifecycle they drive                                      *)
(* (src/services/implementations/ApiChatService.ts).                       *)
(*                                                                         *)
(* Every async method is split at its only suspension that other calls can *)
(* observe, `await fetch(...)`: the part before it (headers are built from *)
(* the token store, the request is sent) is the operation's start action,  *)
(* the part after it (the rest of makeRequest and the method's own         *)
(* continuation, with its token write) is the operation's resume action.   *)
(* The code between the fetch settling and the method returning reads and  *)
(* writes nothing shared but the final token write, so it is one step.     *)
(***************************************************************************)
EXTENDS Naturals, Sequences, FiniteSets, TLC

(***************************************************************************)
(* Bounds                                                                  *)
(***************************************************************************)
\* Calls that can be in flight (or just completed) at the same time.
MaxCalls == 2

Calls == 1..MaxCalls

\* Longest `errors` array in an error body handed to a pipeline on its own.
MaxErrors == 2

\* The largest retryAttempts a service is configured with.
MaxRetryAttempts == 2

(***************************************************************************)
(* JavaScript values                                                       *)
(***************************************************************************)
Null == "<null>"
Undefined == "<undefined>"

\* JavaScript truthiness of a string-or-nullish value (`if (token)`, `a || b`).
Truthy(v) == v \notin {Null, Undefined, ""}

\* Property read `o.k` on a parsed JSON object: undefined when k is absent.
Get(o, k) == IF k \in DOMAIN o THEN o[k] ELSE Undefined

\* The object {} .
EmptyObject == <<>>

\* Array.prototype.join on an array of strings.
RECURSIVE Join(_, _)
Join(arr, sep) ==
    IF Len(arr) = 0 THEN ""
    ELSE IF Len(arr) = 1 THEN arr[1]
    ELSE arr[1] \o sep \o Join(Tail(arr), sep)

\* JSON.stringify of a request payload (the wire form is not the payload).
JSONstringify(v) == <<"JSON", v>>

(***************************************************************************)
(* What the backend and the callers supply                                 *)
(***************************************************************************)
\* Tokens the backend issues: opaque, non-empty strings.
Tokens == {"abc", "xyz"}

Users == {[id |-> "1", username |-> "alice"], [id |-> "2", username |-> "bob"]}

\* Conversation ids, request payloads and credentials passed by callers.
Ids == {"c1"}
Payload == [content |-> "payload"]
Credentials == [username |-> "alice", password |-> "pw"]

\* A response body as it arrives: "empty" (no bytes), "text" (bytes that are
\* not JSON) or "json" (the bytes of the JSON object `json`).
Body(raw, json) == [raw |-> raw, json |-> json]
EmptyBody == Body("empty", EmptyObject)
TextBody == Body("text", EmptyObject)
JsonBody(o) == Body("json", o)

\* What fetch settles with: a response, or a rejection (no response obtained).
Response(status, body) == [failed |-> FALSE, status |-> status, body |-> body]
TransportFailure == [failed |-> TRUE, status |-> 0, body |-> EmptyBody]

(***************************************************************************)
(* TokenManager: the process-wide token slot (one value or none)           *)
(***************************************************************************)
getToken(store) == store
setToken(store, value) == value
clearToken(store) == Null

(***************************************************************************)
(* Errors and results of an async function                                 *)
(***************************************************************************)
\* `new Error(message)`: an object with a name and a message, nothing else.
Error(message) == [name |-> "Error", message |-> message]
\* What response.json() throws on a body that is not JSON.
SyntaxError == [name |-> "SyntaxError", message |-> "Unexpected end of JSON input"]
\* What fetch rejects with when no response is obtained.
FetchError == [name |-> "TypeError", message |-> "Failed to fetch"]
NoError == [name |-> "", message |-> ""]

Return(value) == [threw |-> FALSE, value |-> value, error |-> NoError]
Throw(error) == [threw |-> TRUE, value |-> Undefined, error |-> error]

(***************************************************************************)
(* The parts the two makeRequest methods share word for word               *)
(***************************************************************************)
\* response.ok
Ok(response) == response.status \in 200..299

\* response.json(): the parsed object, or a throw.
ParseJSON(body) ==
    IF body.raw = "json" THEN Return(body.json) ELSE Throw(SyntaxError)

\* { ...a, ...b }: b's entries win on a key collision.
\* A spread in which the keys written first win.
SpreadFirstWins(a, b) == a @@ b

Spread(a, b) == b @@ a

\* options.headers || {}
CallerHeaders(options) ==
    IF "headers" \in DOMAIN options THEN options["headers"] ELSE EmptyObject

\* { ...options, headers: {...defaultHeaders, ...(options.headers || {})},
\*   credentials: 'include' }
FetchOptions(options, defaultHeaders) ==
    Spread(Spread(options,
                  [headers |-> Spread(defaultHeaders, CallerHeaders(options))]),
           [credentials |-> "include"])

GenericMessage(response) ==
    "Request failed with status " \o ToString(response.status)

\* The same choice with the two fields tried in the other order.
PickMessageErrorsFirst(errorData, errorMessage) ==
    LET joined == IF "errors" \in DOMAIN errorData
                  THEN Join(errorData["errors"], ", ")
                  ELSE Undefined
    IN  IF Truthy(joined) THEN joined
        ELSE IF Truthy(Get(errorData, "error")) THEN errorData["error"]
        ELSE errorMessage

\* errorData.error || errorData.errors?.join(', ') || errorMessage
PickMessage(errorData, errorMessage) ==
    LET joined == IF "errors" \in DOMAIN errorData
                  THEN Join(errorData["errors"], ", ")
                  ELSE Undefined
    IN  IF Truthy(Get(errorData, "error")) THEN errorData["error"]
        ELSE IF Truthy(joined) THEN joined
        ELSE errorMessage

(***************************************************************************)
(* Construction                                                            *)
(***************************************************************************)
\* The two service instances, as their constructors leave them.
VARIABLE service

\* The configurations a service is constructed with.
ServiceConfigs ==
    {[baseUrl |-> "http://localhost:3000", timeout |-> t, retryAttempts |-> r] :
        t \in {0, 5000}, r \in 0..MaxRetryAttempts}

\* Lines 29-32: the constructor keeps the base URL and nothing else of the
\* configuration.
ApiChatService(config) == [baseUrl |-> config.baseUrl]

\* Lines 277-280.
ApiAuthService(config) ==
    [baseUrl |-> IF Truthy(config.baseUrl) THEN config.baseUrl
                 ELSE "http://localhost:3000"]

\* The two services constructed, each with a configuration of its own.
Constructed ==
    {[chat |-> ApiChatService(cc), auth |-> ApiAuthService(ac)] :
        cc \in ServiceConfigs,
        ac \in ServiceConfigs \cup {[baseUrl |-> ""]}}

(***************************************************************************)
(* ApiChatService.makeRequest                                              *)
(***************************************************************************)
ChatBaseUrl == service.chat.baseUrl

\* Default headers that never carry the token.
ChatDefaultHeadersNoBearer(token) == ("Content-Type" :> "application/json")

\* Default headers that carry the token without its scheme.
ChatDefaultHeadersRawToken(token) ==
    IF Truthy(token)
    THEN ("Content-Type" :> "application/json") @@ ("Authorization" :> token)
    ELSE ("Content-Type" :> "application/json")

ChatDefaultHeaders(token) ==
    IF Truthy(token)
    THEN ("Content-Type" :> "application/json")
         @@ ("Authorization" :> ("Bearer " \o token))
    ELSE ("Content-Type" :> "application/json")

\* A request whose headers were built once, before any token was stored.
ChatRequestCachedHeaders(endpoint, options, store) ==
    [url |-> ChatBaseUrl \o endpoint,
     options |-> FetchOptions(options, ChatDefaultHeaders(Null))]

\* Lines 39-66: the request handed to fetch.
ChatRequest(endpoint, options, store) ==
    [url |-> ChatBaseUrl \o endpoint,
     options |-> FetchOptions(options, ChatDefaultHeaders(getToken(store)))]

\* Lines 68-76: the message of the error thrown for a non-ok response.
ChatErrorMessage(response) ==
    LET parsed == ParseJSON(response.body)
    IN  IF parsed.threw THEN GenericMessage(response)
        ELSE PickMessage(parsed.value, GenericMessage(response))

\* A makeRequest that catches the rejection of fetch and throws the error it
\* throws for a failure status.
ChatMakeRequestWrapsRejection(net) ==
    IF net.failed \/ ~Ok(net) THEN Throw(Error(ChatErrorMessage(net)))
    ELSE ParseJSON(net.body)

\* Lines 66-81: what makeRequest settles with once fetch has settled with `net`.
ChatMakeRequest(net) ==
    IF net.failed THEN Throw(FetchError)
    ELSE IF ~Ok(net) THEN Throw(Error(ChatErrorMessage(net)))
    ELSE ParseJSON(net.body)

(***************************************************************************)
(* ApiAuthService.makeRequest                                              *)
(***************************************************************************)
AuthBaseUrl == service.auth.baseUrl

AuthDefaultHeaders == ("Content-Type" :> "application/json")

\* Lines 287-306: the request handed to fetch (the token store is not read).
AuthRequest(endpoint, options) ==
    [url |-> AuthBaseUrl \o endpoint,
     options |-> FetchOptions(options, AuthDefaultHeaders)]

\* Lines 309-318.
AuthErrorMessage(response) ==
    LET parsed == ParseJSON(response.body)
    IN  IF parsed.threw THEN GenericMessage(response)
        ELSE PickMessage(parsed.value, GenericMessage(response))

\* Lines 306-326.
AuthMakeRequest(net) ==
    IF net.failed THEN Throw(FetchError)
    ELSE IF ~Ok(net) THEN Throw(Error(AuthErrorMessage(net)))
    ELSE IF net.status = 204 THEN Return(EmptyObject)
    ELSE ParseJSON(net.body)

(***************************************************************************)
(* The continuations of the ApiAuthService methods: what each does with    *)
(* the settled makeRequest `r` and the token store, as the pair of the new *)
(* store and the method's own result.                                      *)
(***************************************************************************)
\* login that returns the user but forgets to store the token.
loginContinueNoStore(r, store) ==
    IF r.threw THEN [store |-> store, out |-> r]
    ELSE [store |-> store, out |-> Return(Get(r.value, "user"))]

\* login that stores its token only when the store is as empty as it was
\* when the login began.
loginContinueKeepsNewer(r, store) ==
    IF r.threw THEN [store |-> store, out |-> r]
    ELSE [store |-> IF Truthy(store) THEN store
                    ELSE setToken(store, Get(r.value, "token")),
          out |-> Return(Get(r.value, "user"))]

\* login, lines 346-350 (a rejected await leaves the method at once).
loginContinue(r, store) ==
    IF r.threw THEN [store |-> store, out |-> r]
    ELSE [store |-> setToken(store, Get(r.value, "token")),
          out |-> Return(Get(r.value, "user"))]

\* register, lines 383-384.
registerContinue(r, store) ==
    IF r.threw THEN [store |-> store, out |-> r]
    ELSE [store |-> setToken(store, Get(r.value, "token")),
          out |-> Return(Get(r.value, "user"))]

\* logout whose clear sits after the request instead of in a finally.
logoutContinueSkipOnFailure(r, store) ==
    IF r.threw THEN [store |-> store, out |-> Return(Undefined)]
    ELSE [store |-> clearToken(store), out |-> Return(Undefined)]

\* logout without the catch: the clear runs, the failure is rethrown.
logoutContinueRethrow(r, store) ==
    IF r.threw THEN [store |-> clearToken(store), out |-> r]
    ELSE [store |-> clearToken(store), out |-> Return(Undefined)]

\* logout, lines 397-407: catch logs, finally clears.
logoutContinue(r, store) ==
    [store |-> clearToken(store), out |-> Return(Undefined)]

\* refreshToken that drops the stale token when the refresh fails.
refreshTokenContinueClearOnFailure(r, store) ==
    IF r.threw THEN [store |-> clearToken(store), out |-> r]
    ELSE [store |-> setToken(store, Get(r.value, "token")),
          out |-> Return(Get(r.value, "user"))]

\* refreshToken, lines 421-425.
refreshTokenContinue(r, store) ==
    IF r.threw THEN [store |-> store, out |-> r]
    ELSE [store |-> setToken(store, Get(r.value, "token")),
          out |-> Return(Get(r.value, "user"))]

\* getCurrentUser whose catch returns null without clearing the token.
getCurrentUserContinueKeepToken(r, store) ==
    IF r.threw THEN [store |-> store, out |-> Return(Null)]
    ELSE [store |-> store, out |-> Return(r.value)]

\* getCurrentUser that keeps the token when it got no response at all.
getCurrentUserContinueKeepsOnRejection(r, store) ==
    IF r.threw
    THEN [store |-> IF r.error = FetchError THEN store ELSE clearToken(store),
          out |-> Return(Null)]
    ELSE [store |-> store, out |-> Return(r.value)]

\* getCurrentUser that stores a token the way refreshToken does.
getCurrentUserContinueStoresToken(r, store) ==
    IF r.threw THEN [store |-> clearToken(store), out |-> Return(Null)]
    ELSE [store |-> setToken(store, Get(r.value, "token")),
          out |-> Return(r.value)]

\* getCurrentUser, lines 438-447.
getCurrentUserContinue(r, store) ==
    IF r.threw THEN [store |-> clearToken(store), out |-> Return(Null)]
    ELSE [store |-> store, out |-> Return(r.value)]

(***************************************************************************)
(* The continuations of the ApiChatService methods                         *)
(***************************************************************************)
\* `return <the awaited value>`.
ReturnData(r) == r

\* claimConversation / unclaimConversation: the awaited value is dropped.
ReturnVoid(r) == IF r.threw THEN r ELSE Return(Undefined)

(***************************************************************************)
(* Operations                                                              *)
(***************************************************************************)
DataChatOps == {"getConversations", "getConversation", "createConversation",
                "getMessages", "sendMessage", "getExpertQueue",
                "getExpertProfile", "updateExpertProfile",
                "getExpertAssignmentHistory"}
VoidChatOps == {"claimConversation", "unclaimConversation"}
ChatOps == DataChatOps \cup VoidChatOps
StubOps == {"updateConversation", "deleteConversation", "markMessageAsRead"}
TokenOps == {"login", "register", "refreshToken"}
AuthOps == TokenOps \cup {"logout", "getCurrentUser"}

(***************************************************************************)
(* The backend                                                             *)
(***************************************************************************)
\* The bodies the backend sends with a 200, per operation (section 6).
SuccessBodies(name) ==
    IF name \in TokenOps
    THEN {JsonBody([user |-> u, token |-> t]) : u \in Users, t \in Tokens}
    ELSE IF name = "getCurrentUser" THEN {JsonBody(u) : u \in Users}
    ELSE IF name = "logout" THEN {JsonBody([message |-> "Logged out"])}
    ELSE {JsonBody(Payload)}

FailureResponses ==
    {Response(401, JsonBody([error |-> "Invalid credentials"])),
     Response(409, JsonBody([errors |-> <<"a", "b">>])),
     Response(500, TextBody)}

\* Everything fetch can settle with for a request of operation `name`.
NetOutcomes(name) ==
    {Response(200, b) : b \in SuccessBodies(name)}
        \cup {Response(200, TextBody), Response(204, EmptyBody)}
        \cup FailureResponses
        \cup {TransportFailure}

(***************************************************************************)
(* State                                                                   *)
(***************************************************************************)
VARIABLES
    token,  \* the TokenManager's slot
    pc,     \* per call: "idle", "fetching" (awaiting fetch) or "done"
    op,     \* per call: the method invoked
    req,    \* per call: the request handed to fetch, while it is in flight
    sent,   \* per call: how many times the invocation has called fetch
    net,    \* per call: what fetch settled with
    out,    \* per call: what the method's promise settled with
    probe   \* a makeRequest applied to one response on its own

vars == <<service, token, pc, op, req, sent, net, out, probe>>

NoRequest == [url |-> "", options |-> EmptyObject]
NoNet == [failed |-> FALSE, status |-> 0, body |-> EmptyBody]
NoOut == Return(Undefined)
NoProbe ==
    [pipeline |-> "", options |-> EmptyObject, store |-> Null, net |-> NoNet,
     applied |-> FALSE, request |-> NoRequest, result |-> NoOut]

Init ==
    /\ service \in Constructed
    /\ token = Null
    /\ pc = [c \in Calls |-> "idle"]
    /\ op = [c \in Calls |-> ""]
    /\ req = [c \in Calls |-> NoRequest]
    /\ sent = [c \in Calls |-> 0]
    /\ net = [c \in Calls |-> NoNet]
    /\ out = [c \in Calls |-> NoOut]
    /\ probe = NoProbe

(***************************************************************************)
(* Steps shared by the methods                                             *)
(***************************************************************************)
\* A method runs up to `await fetch(url, fetchOptions)`.
Send(c, name, request) ==
    /\ pc[c] = "idle"
    /\ pc' = [pc EXCEPT ![c] = "fetching"]
    /\ op' = [op EXCEPT ![c] = name]
    /\ req' = [req EXCEPT ![c] = request]
    /\ sent' = [sent EXCEPT ![c] = sent[c] + 1]
    /\ UNCHANGED <<service, token, net, out, probe>>

\* A promise reaction runs before the next response is delivered: the caller
\* of a settled method takes its result before another fetch settles.
NoCompletionPending == \A d \in Calls : pc[d] # "done"

\* A pipeline that issues the request once more when fetch rejects.
SettleRetries(c, name, settlements) ==
    /\ pc[c] = "fetching"
    /\ op[c] = name
    /\ NoCompletionPending
    /\ \E s \in settlements :
          IF s.net.failed /\ sent[c] = 1
          THEN /\ sent' = [sent EXCEPT ![c] = sent[c] + 1]
               /\ UNCHANGED <<token, pc, req, net, out>>
          ELSE /\ net' = [net EXCEPT ![c] = s.net]
               /\ out' = [out EXCEPT ![c] = s.then.out]
               /\ token' = s.then.store
               /\ pc' = [pc EXCEPT ![c] = "done"]
               /\ req' = [req EXCEPT ![c] = NoRequest]
               /\ sent' = sent
    /\ UNCHANGED <<service, op, probe>>

\* fetch settles with one of the outcomes the backend can produce and the
\* method runs to its end. `settlements` pairs each outcome `net` with what
\* the method then leaves: `then.store` in the token store, `then.out` as its
\* own result.
Settle(c, name, settlements) ==
    /\ pc[c] = "fetching"
    /\ op[c] = name
    /\ NoCompletionPending
    /\ \E s \in settlements :
          /\ net' = [net EXCEPT ![c] = s.net]
          /\ out' = [out EXCEPT ![c] = s.then.out]
          /\ token' = s.then.store
    /\ pc' = [pc EXCEPT ![c] = "done"]
    /\ req' = [req EXCEPT ![c] = NoRequest]
    /\ UNCHANGED <<service, op, sent, probe>>

\* A ChatService method that is one makeRequest call, whose awaited value it
\* returns, or drops when it is void.
ChatMethod(c, name, endpoint, options, void) ==
    \/ Send(c, name, ChatRequest(endpoint, options, token))
    \/ Settle(c, name,
              {[net |-> n,
                then |-> [store |-> token,
                          out |-> IF void THEN ReturnVoid(ChatMakeRequest(n))
                                  ELSE ReturnData(ChatMakeRequest(n))]] :
                 n \in NetOutcomes(name)})

\* A stub that calls the backend before it throws.
StubCallsBackend(c, name) ==
    /\ pc[c] = "idle"
    /\ pc' = [pc EXCEPT ![c] = "done"]
    /\ op' = [op EXCEPT ![c] = name]
    /\ sent' = [sent EXCEPT ![c] = sent[c] + 1]
    /\ out' = [out EXCEPT ![c] = Throw(Error(name \o " method not implemented"))]
    /\ UNCHANGED <<service, token, req, net, probe>>

\* A method that throws before anything else.
Stub(c, name) ==
    /\ pc[c] = "idle"
    /\ pc' = [pc EXCEPT ![c] = "done"]
    /\ op' = [op EXCEPT ![c] = name]
    /\ out' = [out EXCEPT ![c] = Throw(Error(name \o " method not implemented"))]
    /\ UNCHANGED <<service, token, req, sent, net, probe>>

\* The caller takes the result of a settled call.
CallerResumes(c) ==
    /\ pc[c] = "done"
    /\ pc' = [pc EXCEPT ![c] = "idle"]
    /\ op' = [op EXCEPT ![c] = ""]
    /\ sent' = [sent EXCEPT ![c] = 0]
    /\ net' = [net EXCEPT ![c] = NoNet]
    /\ out' = [out EXCEPT ![c] = NoOut]
    /\ UNCHANGED <<service, token, req, probe>>

(***************************************************************************)
(* ApiChatService                                                          *)
(***************************************************************************)
getConversations(c) ==
    ChatMethod(c, "getConversations", "/conversations",
               [method |-> "GET"], FALSE)

getConversation(c, id) ==
    ChatMethod(c, "getConversation", "/conversations/" \o id,
               [method |-> "GET"], FALSE)

createConversation(c, request) ==
    ChatMethod(c, "createConversation", "/conversations",
               [method |-> "POST", body |-> JSONstringify(request)], FALSE)

\* The arguments are never read.
updateConversation(c, id, request) == Stub(c, "updateConversation")

deleteConversation(c, id) == Stub(c, "deleteConversation")

getMessages(c, conversationId) ==
    ChatMethod(c, "getMessages",
               "/conversations/" \o conversationId \o "/messages",
               [method |-> "GET"], FALSE)

sendMessage(c, request) ==
    ChatMethod(c, "sendMessage", "/messages",
               [method |-> "POST", body |-> JSONstringify(request)], FALSE)

markMessageAsRead(c, messageId) == Stub(c, "markMessageAsRead")

getExpertQueue(c) ==
    ChatMethod(c, "getExpertQueue", "/expert/queue",
               [method |-> "GET"], FALSE)

claimConversation(c, conversationId) ==
    ChatMethod(c, "claimConversation",
               "/expert/conversations/" \o conversationId \o "/claim",
               [method |-> "POST"], TRUE)

unclaimConversation(c, conversationId) ==
    ChatMethod(c, "unclaimConversation",
               "/expert/conversations/" \o conversationId \o "/unclaim",
               [method |-> "POST"], TRUE)

getExpertProfile(c) ==
    ChatMethod(c, "getExpertProfile", "/expert/profile",
               [method |-> "GET"], FALSE)

updateExpertProfile(c, request) ==
    ChatMethod(c, "updateExpertProfile", "/expert/profile",
               [method |-> "PUT", body |-> JSONstringify(request)], FALSE)

getExpertAssignmentHistory(c) ==
    ChatMethod(c, "getExpertAssignmentHistory", "/expert/assignments/history",
               [method |-> "GET"], FALSE)

(***************************************************************************)
(* ApiAuthService                                                          *)
(***************************************************************************)
login(c, username, password) ==
    \/ Send(c, "login",
            AuthRequest("/auth/login",
                        [method |-> "POST",
                         body |-> JSONstringify(
                            [user |-> [username |-> username,
                                       password |-> password]])]))
    \/ Settle(c, "login",
              {[net |-> n, then |-> loginContinue(AuthMakeRequest(n), token)] :
                 n \in NetOutcomes("login")})

register(c, userData) ==
    \/ Send(c, "register",
            AuthRequest("/auth/register",
                        [method |-> "POST",
                         body |-> JSONstringify([user |-> userData])]))
    \/ Settle(c, "register",
              {[net |-> n, then |-> registerContinue(AuthMakeRequest(n), token)] :
                 n \in NetOutcomes("register")})

logout(c) ==
    \/ Send(c, "logout", AuthRequest("/auth/logout", [method |-> "POST"]))
    \/ Settle(c, "logout",
              {[net |-> n, then |-> logoutContinue(AuthMakeRequest(n), token)] :
                 n \in NetOutcomes("logout")})

refreshToken(c) ==
    \/ Send(c, "refreshToken", AuthRequest("/auth/refresh", [method |-> "POST"]))
    \/ Settle(c, "refreshToken",
              {[net |-> n,
                then |-> refreshTokenContinue(AuthMakeRequest(n), token)] :
                 n \in NetOutcomes("refreshToken")})

getCurrentUser(c) ==
    \/ Send(c, "getCurrentUser", AuthRequest("/auth/me", [method |-> "GET"]))
    \/ Settle(c, "getCurrentUser",
              {[net |-> n,
                then |-> getCurrentUserContinue(AuthMakeRequest(n), token)] :
                 n \in NetOutcomes("getCurrentUser")})

(***************************************************************************)
(* The program                                                             *)
(***************************************************************************)
Next ==
    \E c \in Calls :
        \/ getConversations(c)
        \/ \E id \in Ids : getConversation(c, id)
        \/ createConversation(c, Payload)
        \/ \E id \in Ids : updateConversation(c, id, Payload)
        \/ \E id \in Ids : deleteConversation(c, id)
        \/ \E id \in Ids : getMessages(c, id)
        \/ sendMessage(c, Payload)
        \/ \E id \in Ids : markMessageAsRead(c, id)
        \/ getExpertQueue(c)
        \/ \E id \in Ids : claimConversation(c, id)
        \/ \E id \in Ids : unclaimConversation(c, id)
        \/ getExpertProfile(c)
        \/ updateExpertProfile(c, Payload)
        \/ getExpertAssignmentHistory(c)
        \/ login(c, Credentials.username, Credentials.password)
        \/ register(c, Credentials)
        \/ logout(c)
        \/ refreshToken(c)
        \/ getCurrentUser(c)
        \/ CallerResumes(c)

Spec == Init /\ [][Next]_vars

\* The backend answers the request of call `c`, or the transport gives it up,
\* and the method runs to its end.
Answered(c) == pc[c] = "fetching" /\ NoCompletionPending /\ Next /\ pc'[c] = "done"

\* The last caller that holds a result takes it: the chain of promise
\* reactions ends and the event loop gets to deliver the next response.
ReactionsDrain == (\E c \in Calls : CallerResumes(c)) /\ NoCompletionPending'

\* Every request in flight is answered in the end, however often another
\* call's completion is handled first; the caller of a settled method takes
\* its result, and the callers do not keep the event loop from the responses
\* for ever by chaining calls that end at once.
SpecAnswered ==
    /\ Spec
    /\ \A c \in Calls : SF_vars(Answered(c)) /\ WF_vars(CallerResumes(c))
    /\ SF_vars(ReactionsDrain)

(***************************************************************************)
(* A makeRequest on its own: one response, drawn from every status and     *)
(* every shape of error body, is handed to one of the two pipelines.       *)
(***************************************************************************)
ProbeStatuses == {200, 204, 401, 409, 500}

ErrorFields == {<<>>, <<"">>, <<"Invalid credentials">>}
ErrorsFields ==
    {<<>>} \cup {<<a>> : a \in UNION {[1..k -> {"", "a", "b"}] : k \in 0..MaxErrors}}

\* The object with an `error` and an `errors` entry where the field is given.
ErrorObject(e, es) ==
    (IF e = <<>> THEN EmptyObject ELSE [error |-> e[1]])
        @@ (IF es = <<>> THEN EmptyObject ELSE [errors |-> es[1]])

ProbeBodies ==
    {EmptyBody, TextBody}
        \cup {JsonBody(ErrorObject(e, es)) : e \in ErrorFields, es \in ErrorsFields}

\* The options a caller of makeRequest may pass: none but the method, headers
\* of its own beside or in place of the default ones, a credentials mode.
ProbeOptions ==
    {[method |-> "GET"],
     [method |-> "POST", body |-> JSONstringify(Payload), credentials |-> "omit"],
     [method |-> "GET", headers |-> ("X-Trace" :> "1")],
     [method |-> "GET", headers |-> ("Content-Type" :> "text/plain"),
      credentials |-> "same-origin"],
     [method |-> "GET", headers |-> ("Authorization" :> "Basic dXNlcg==")]}

ProbeEndpoint == "/health"

ProbeNets ==
    {Response(s, b) : s \in ProbeStatuses, b \in ProbeBodies} \cup {TransportFailure}

PipelineInit ==
    /\ service \in Constructed
    /\ token = Null
    /\ pc = [c \in Calls |-> "idle"]
    /\ op = [c \in Calls |-> ""]
    /\ req = [c \in Calls |-> NoRequest]
    /\ sent = [c \in Calls |-> 0]
    /\ net = [c \in Calls |-> NoNet]
    /\ out = [c \in Calls |-> NoOut]
    /\ probe \in {[pipeline |-> "", options |-> o, store |-> t, net |-> n,
                     applied |-> FALSE, request |-> NoRequest, result |-> NoOut] :
                    o \in ProbeOptions, t \in {Null, "abc"}, n \in ProbeNets}

ChatProbe ==
    /\ ~probe.applied
    /\ probe' = [probe EXCEPT
                    !.pipeline = "chat", !.applied = TRUE,
                    !.request = ChatRequest(ProbeEndpoint, probe.options, probe.store),
                    !.result = ChatMakeRequest(probe.net)]
    /\ UNCHANGED <<service, token, pc, op, req, sent, net, out>>

AuthProbe ==
    /\ ~probe.applied
    /\ probe' = [probe EXCEPT
                    !.pipeline = "auth", !.applied = TRUE,
                    !.request = AuthRequest(ProbeEndpoint, probe.options),
                    !.result = AuthMakeRequest(probe.net)]
    /\ UNCHANGED <<service, token, pc, op, req, sent, net, out>>

PipelineNext == ChatProbe \/ AuthProbe

SpecPipeline == PipelineInit /\ [][PipelineNext]_vars

(***************************************************************************)
(* Vocabulary of the properties                                            *)
(***************************************************************************)
Done(c) == pc[c] = "done"
InFlight(c) == pc[c] = "fetching"
Headers(c) == req[c].options["headers"]

\* The call's fetch settles and the method returns in this step.
Returns(c) == pc[c] = "fetching" /\ pc'[c] = "done"
\* The call's request is handed to fetch in this step.
Issues(c) == pc[c] = "idle" /\ pc'[c] = "fetching"

\* A request sent while the store held `t` is still in flight.
SentWithBearer(t) ==
    \E d \in Calls :
        /\ InFlight(d) /\ op[d] \in ChatOps
        /\ Get(Headers(d), "Authorization") = "Bearer " \o t

\* The response is a 200 whose JSON body carries a token.
CarriesToken(n) ==
    /\ ~n.failed /\ n.status = 200 /\ n.body.raw = "json"
    /\ "token" \in DOMAIN n.body.json

\* The response has a failure status.
FailureStatus(n) == ~n.failed /\ n.status \notin 200..299

\* The request failed: no response, a failure status, or a body that was to
\* be parsed and is not JSON.
RequestFailed(n) ==
    \/ n.failed
    \/ FailureStatus(n)
    \/ (n.status # 204 /\ n.body.raw # "json")

(***************************************************************************)
(* Properties of the session lifecycle                                     *)
(***************************************************************************)
\* C1: when login, register or refreshToken has completed successfully on a
\* response carrying a token, the token store holds, as the method returns,
\* exactly that token.
C1_TokenStoredOnSuccess ==
    \A c \in Calls :
        (Done(c) /\ op[c] \in TokenOps /\ ~out[c].threw /\ CarriesToken(net[c]))
            => token = net[c].body.json["token"]

\* C1 witness: a refreshToken has returned with the rotated token "xyz" in
\* the store, which held "abc" before (a request sent with it is in flight).
C1_Witness ==
    \E c \in Calls :
        /\ Done(c) /\ op[c] = "refreshToken" /\ ~out[c].threw
        /\ CarriesToken(net[c]) /\ net[c].body.json["token"] = "xyz"
        /\ token = "xyz"
        /\ SentWithBearer("abc")

\* C2: as logout returns, the token store is absent, whatever the revoke
\* request came to.
C2_LogoutClearsToken ==
    \A c \in Calls : (Done(c) /\ op[c] = "logout") => token = Null

\* C2 witness: a logout answered with a 500 has returned, the store that held
\* "abc" is absent.
C2_Witness ==
    \E c \in Calls :
        /\ Done(c) /\ op[c] = "logout" /\ net[c] = Response(500, TextBody)
        /\ token = Null
        /\ SentWithBearer("abc")

\* C3: when the identity request of getCurrentUser fails, getCurrentUser
\* returns null and the token store is absent as it returns.
C3_IdentityFailureClears ==
    \A c \in Calls :
        (Done(c) /\ op[c] = "getCurrentUser" /\ RequestFailed(net[c]))
            => (~out[c].threw /\ out[c].value = Null /\ token = Null)

\* C3 witness: a getCurrentUser answered with a 401 has returned null, the
\* store that held "abc" is absent.
C3_Witness ==
    \E c \in Calls :
        /\ Done(c) /\ op[c] = "getCurrentUser" /\ net[c].status = 401
        /\ out[c] = Return(Null) /\ token = Null
        /\ SentWithBearer("abc")

\* C4: logout and getCurrentUser never reject: logout resolves with no value,
\* getCurrentUser with null when its request failed.
C4_NoFailureSurfaces ==
    \A c \in Calls :
        /\ (Done(c) /\ op[c] = "logout") => out[c] = Return(Undefined)
        /\ (Done(c) /\ op[c] = "getCurrentUser") =>
              /\ ~out[c].threw
              /\ RequestFailed(net[c]) => out[c] = Return(Null)

\* C4 witness: a logout whose request got no response has resolved.
C4_Witness ==
    \E c \in Calls :
        /\ Done(c) /\ op[c] = "logout" /\ net[c] = TransportFailure
        /\ out[c] = Return(Undefined)

\* C5: a login, register or refreshToken whose request got a failure status or
\* no response leaves the token store as it was and rejects with the
\* pipeline's error.
C5_FailureLeavesToken ==
    [][\A c \in Calls :
          (Returns(c) /\ op[c] \in TokenOps
              /\ (net'[c].failed \/ FailureStatus(net'[c])))
            => (token' = token /\ out'[c].threw
                /\ out'[c] = AuthMakeRequest(net'[c]))]_vars

\* C5 witness: a refreshToken answered with a 401 has rejected and the stored
\* token "abc" is still there.
C5_Witness ==
    \E c \in Calls :
        /\ Done(c) /\ op[c] = "refreshToken" /\ net[c].status = 401
        /\ out[c].threw /\ out[c].error.message = "Invalid credentials"
        /\ token = "abc"

(***************************************************************************)
(* Properties of the request pipelines                                     *)
(***************************************************************************)
\* A pipeline has been handed a response with a failure status.
ProbedFailure == probe.applied /\ FailureStatus(probe.net)

StatusMessage(n) == "Request failed with status " \o ToString(n.status)

\* The message chosen by which fields the body has.
MessageByPresence(n) ==
    IF n.body.raw # "json" THEN StatusMessage(n)
    ELSE IF "error" \in DOMAIN n.body.json THEN n.body.json["error"]
    ELSE IF "errors" \in DOMAIN n.body.json
         THEN Join(n.body.json["errors"], ", ")
    ELSE StatusMessage(n)

\* The message chosen by which fields the body has with a non-empty text.
MessageByNonEmpty(n) ==
    IF n.body.raw # "json" THEN StatusMessage(n)
    ELSE IF "error" \in DOMAIN n.body.json /\ n.body.json["error"] # ""
         THEN n.body.json["error"]
    ELSE IF "errors" \in DOMAIN n.body.json
            /\ Join(n.body.json["errors"], ", ") # ""
         THEN Join(n.body.json["errors"], ", ")
    ELSE StatusMessage(n)

\* C6 as stated: for a failure status, either pipeline's error message is the
\* body's `error` if present, else its `errors` joined with ", " if present,
\* else (also for a body that is not JSON) "Request failed with status <code>".
C6_MessageByPresence ==
    ProbedFailure =>
        (probe.result.threw
         /\ probe.result.error.message = MessageByPresence(probe.net))

\* C6 amended: for a failure status, either pipeline's error message is the
\* body's `error` if present and non-empty, else its `errors` joined with ", "
\* if present and the joined text is non-empty, else (also for a body that is
\* not JSON) "Request failed with status <code>"; with the three examples.
C6_MessageByNonEmpty ==
    ProbedFailure =>
        /\ probe.result.threw
        /\ probe.result.error.message = MessageByNonEmpty(probe.net)
        /\ probe.net.body = JsonBody([error |-> "Invalid credentials"])
              => probe.result.error.message = "Invalid credentials"
        /\ probe.net.body = JsonBody([errors |-> <<"a", "b">>])
              => probe.result.error.message = "a, b"
        /\ probe.net = Response(500, TextBody)
              => probe.result.error.message = "Request failed with status 500"

\* C6 witness: the auth pipeline, handed a 409 whose body has an empty `error`
\* and `errors` ["a","b"], has thrown "a, b".
C6_Witness ==
    /\ probe.applied /\ probe.pipeline = "auth"
    /\ probe.net = Response(409, JsonBody([error |-> "", errors |-> <<"a", "b">>]))
    /\ probe.result.threw /\ probe.result.error.message = "a, b"

\* C7 as stated: for a failure status, either pipeline throws an error that
\* carries the derived message and, as `status`, the response's status code.
C7_ErrorCarriesStatus ==
    ProbedFailure =>
        /\ probe.result.threw
        /\ probe.result.error.message = MessageByNonEmpty(probe.net)
        /\ "status" \in DOMAIN probe.result.error
        /\ probe.result.error["status"] = probe.net.status

\* C8 as stated: logout, claimConversation and unclaimConversation answered
\* with a 204 and an empty body return successfully.
C8_NoContentReturns ==
    \A c \in Calls :
        (Done(c) /\ op[c] \in VoidChatOps \cup {"logout"}
            /\ net[c] = Response(204, EmptyBody))
          => ~out[c].threw

\* The store holds a token.
HoldsToken(store) == store \notin {Null, Undefined}

\* The headers carry `Authorization: Bearer <store>` when the store holds a
\* token and no Authorization header when it holds none.
BearerMatches(headers, store) ==
    IF HoldsToken(store)
    THEN Get(headers, "Authorization") = "Bearer " \o store
    ELSE "Authorization" \notin DOMAIN headers

C10_LoginThenBearer ==
    [][\A c \in Calls :
          /\ (Returns(c) /\ op[c] = "login" /\ ~out'[c].threw
                /\ CarriesToken(net'[c]))
               => /\ out'[c].value = net'[c].body.json["user"]
                  /\ token' = net'[c].body.json["token"]
          /\ \A t \in Tokens :
                (Issues(c) /\ op'[c] \in ChatOps /\ token = t)
                  => Get(req'[c].options["headers"], "Authorization")
                        = "Bearer " \o t]_vars

\* C10 witness: login has returned the user with id "1" from
\* {user: {id: "1", username: "alice"}, token: "abc"} and a getConversations
\* request is in flight with `Authorization: Bearer abc`.
C10_Witness ==
    \E c, d \in Calls :
        /\ Done(c) /\ op[c] = "login"
        /\ net[c] = Response(200, JsonBody([user |-> [id |-> "1", username |-> "alice"],
                                            token |-> "abc"]))
        /\ ~out[c].threw /\ out[c].value.id = "1"
        /\ token = "abc"
        /\ InFlight(d) /\ op[d] = "getConversations"
        /\ req[d].url = "http://localhost:3000/conversations"
        /\ Get(Headers(d), "Authorization") = "Bearer abc"

(***************************************************************************)
(* Properties of the stubs, the frame and the single request               *)
(***************************************************************************)
\* The call is made and throws at once in this step.
ThrowsAtOnce(c) == pc[c] = "idle" /\ pc'[c] = "done"

\* C11: updateConversation, deleteConversation and markMessageAsRead, called
\* in any state with any argument, hand nothing to fetch and leave the token
\* store as it was.
C11_StubsCallNothing ==
    [][\A c \in Calls :
          ThrowsAtOnce(c) =>
            /\ op'[c] \in StubOps
            /\ sent'[c] = 0 /\ req' = req /\ net' = net
            /\ token' = token]_vars

\* C11 witness: markMessageAsRead has thrown with a token in the store and no
\* request made.
C11_Witness ==
    \E c \in Calls :
        /\ Done(c) /\ op[c] = "markMessageAsRead" /\ out[c].threw
        /\ sent[c] = 0 /\ token = "abc"

\* The kind of an error, as `instanceof` or `error.name` tells it.
Kind(error) == error.name

\* A call of a method that goes to the backend has ended with an error.
FailedAtBackend(c) == Done(c) /\ op[c] \notin StubOps /\ out[c].threw

\* C12: updateConversation, deleteConversation and markMessageAsRead never
\* complete normally, and the error they fail with is of a kind of its own:
\* no call that failed at the backend, with a failure status or without a
\* response, ends with an error of the same kind.
C12_StubErrorIsDistinct ==
    \A c \in Calls :
        (Done(c) /\ op[c] \in StubOps) =>
            /\ out[c].threw
            /\ \A d \in Calls :
                 FailedAtBackend(d) => Kind(out[d].error) # Kind(out[c].error)

\* The step is one that may write the token store: the success path of login,
\* register or refreshToken, any return of logout, the failure path of
\* getCurrentUser.
WritingStep(c) ==
    /\ Returns(c)
    /\ \/ op[c] \in TokenOps /\ ~out'[c].threw
       \/ op[c] = "logout"
       \/ op[c] = "getCurrentUser" /\ RequestFailed(net'[c])

\* A writing step happens, and clears the store when it is one of logout or
\* getCurrentUser.
TokenWritten ==
    \E c \in Calls :
        /\ WritingStep(c)
        /\ (op[c] \in {"logout", "getCurrentUser"}) => (token' = Null)

\* C13: the token store changes in a writing step only, which sets it for
\* login, register and refreshToken and clears it for logout and
\* getCurrentUser; a returning method of ApiChatService, a getCurrentUser
\* that succeeded and a login, register or refreshToken that failed leave it
\* as it was.
C13_TokenFrame ==
    [][/\ (token' # token) => TokenWritten
       /\ \A d \in Calls :
            (Returns(d) /\ ~WritingStep(d)) => (token' = token)]_vars

\* C13 witness: a getCurrentUser that succeeded has returned with the token
\* still in the store.
C13_Witness ==
    /\ token = "abc"
    /\ \E c \in Calls :
        /\ Done(c) /\ op[c] = "getCurrentUser"
        /\ ~RequestFailed(net[c]) /\ out[c].value \in Users

\* C14: an invocation of a method that goes to the backend has called fetch
\* exactly once, while it awaits the response and when it has ended, whatever
\* the response was and whatever timeout and retryAttempts the service was
\* constructed with: no outcome makes it call fetch again.
C14_OneFetchPerCall ==
    \A c \in Calls :
        (InFlight(c) \/ (Done(c) /\ op[c] \in ChatOps \cup AuthOps)) =>
            sent[c] = 1

\* C14 witness: sendMessage or refreshToken has ended on a fetch that rejected
\* or on a status 500, the outcomes a retry would be for, with one fetch made.
C14_Witness ==
    \E c \in Calls :
        /\ Done(c) /\ op[c] \in {"sendMessage", "refreshToken"}
        /\ net[c].failed \/ net[c].status = 500
        /\ sent[c] = 1

(***************************************************************************)
(* Properties of a request that gets no response                           *)
(***************************************************************************)
\* The errors either makeRequest throws for a response with a failure status.
StatusErrors ==
    {ChatMakeRequest(n).error : n \in FailureResponses}
        \cup {AuthMakeRequest(n).error : n \in FailureResponses}

\* C15: when fetch rejects, a method of ApiChatService, login, register or
\* refreshToken ends in that step with the rejection of fetch itself: an error
\* of another kind than the error of any failure status, not the error of a
\* body that would not parse, and the token store is as it was.
C15_RejectionPropagates ==
    [][\A c \in Calls :
          (Returns(c) /\ net'[c].failed /\ op[c] \in ChatOps \cup TokenOps) =>
            /\ out'[c] = Throw(FetchError)
            /\ \A e \in StatusErrors : Kind(e) # Kind(out'[c].error)
            /\ Kind(out'[c].error) # Kind(SyntaxError)
            /\ token' = token]_vars

\* C15 witness: login has ended on a fetch that rejected, with the token an
\* earlier call stored still in the store.
C15_Witness ==
    \E c \in Calls :
        /\ Done(c) /\ op[c] = "login" /\ net[c].failed
        /\ out[c] = Throw(FetchError) /\ token = "xyz"

(***************************************************************************)
(* Properties of the options handed to fetch                               *)
(***************************************************************************)
\* The default headers of the makeRequest that was applied.
ProbedDefaults ==
    IF probe.pipeline = "chat" THEN ChatDefaultHeaders(probe.store)
    ELSE AuthDefaultHeaders

\* C16: the options either makeRequest hands to fetch have credentials
\* "include", with and without a token in the store and whatever options the
\* caller passed, a credentials mode of its own included; of the headers, each
\* one the caller passed is sent with the caller's value, and each default one
\* the caller did not pass is sent with the default value.
C16_CredentialsAlwaysIncluded ==
    probe.applied =>
        LET sentOptions == probe.request.options
            caller == CallerHeaders(probe.options)
        IN  /\ sentOptions["credentials"] = "include"
            /\ DOMAIN sentOptions["headers"] =
                   DOMAIN caller \cup DOMAIN ProbedDefaults
            /\ \A k \in DOMAIN caller : sentOptions["headers"][k] = caller[k]
            /\ \A k \in DOMAIN ProbedDefaults \ DOMAIN caller :
                   sentOptions["headers"][k] = ProbedDefaults[k]
            /\ \A k \in DOMAIN probe.options \ {"headers", "credentials"} :
                   sentOptions[k] = probe.options[k]

\* C16 witness: with a token in the store, the caller of the ApiChatService
\* makeRequest passed a Content-Type of its own and credentials "same-origin";
\* the request went out with that Content-Type, the bearer header and
\* credentials "include".
C16_Witness ==
    /\ probe.applied /\ probe.pipeline = "chat" /\ probe.store = "abc"
    /\ Get(probe.options, "credentials") = "same-origin"
    /\ probe.request.options["credentials"] = "include"
    /\ probe.request.options["headers"]["Content-Type"] = "text/plain"
    /\ probe.request.options["headers"]["Authorization"] = "Bearer abc"

(***************************************************************************)
(* Properties of calls in flight together                                  *)
(***************************************************************************)
\* C17: the request of an ApiChatService method is handed to fetch with the
\* bearer header of the token the store holds in that step, and stays as it
\* was handed over for as long as it is in flight, whatever is written to the
\* store meanwhile.
C17_HeaderFixedWhenSent ==
    [][\A c \in Calls :
          /\ (Issues(c) /\ op'[c] \in ChatOps) =>
                BearerMatches(req'[c].options["headers"], token)
          /\ (InFlight(c) /\ pc'[c] = "fetching") => req'[c] = req[c]]_vars

\* C17 witness: a sendMessage request is in flight with `Bearer abc` after a
\* refreshToken has put "xyz" in the store.
C17_Witness ==
    \E c, d \in Calls :
        /\ InFlight(c) /\ op[c] = "sendMessage"
        /\ Get(Headers(c), "Authorization") = "Bearer abc"
        /\ Done(d) /\ op[d] = "refreshToken" /\ ~out[d].threw
        /\ token = "xyz"

\* What the writing step of call `c` puts in the store: the `token` field of
\* the body it parsed for login, register and refreshToken, nothing for
\* logout and getCurrentUser.
Written(c) ==
    IF op[c] \in TokenOps
    THEN IF CarriesToken(net'[c]) THEN net'[c].body.json["token"] ELSE Undefined
    ELSE Null

\* C18: the store holds one value; the writing step of a call, taken as its
\* response is processed, leaves in the store what that call writes, whatever
\* the store held and whichever call began first, and every other step leaves
\* the store as it was: at any time the store holds what the writing step
\* processed last has written.
C18_LastResponseWins ==
    [][/\ token' \in Tokens \cup {Null, Undefined}
       /\ \A c \in Calls : WritingStep(c) => (token' = Written(c))
       /\ (\A c \in Calls : ~WritingStep(c)) => (token' = token)]_vars

\* C18 witness: login has been answered while a logout is awaiting its
\* response, and the store holds the token of the login.
C18_Witness ==
    \E c, d \in Calls :
        /\ Done(c) /\ op[c] = "login" /\ CarriesToken(net[c])
        /\ token = net[c].body.json["token"]
        /\ InFlight(d) /\ op[d] = "logout"

\* C19: a getCurrentUser whose request failed leaves the store empty and
\* returns null, whatever the store held as the response was processed: no
\* token, the token it held when the request was sent, or a token a login,
\* register or refreshToken stored while the request was in flight.
C19_IdentityFailureClearsAnyToken ==
    [][\A c \in Calls :
          \A held \in Tokens \cup {Null, Undefined} :
            (Returns(c) /\ op[c] = "getCurrentUser" /\ RequestFailed(net'[c])
                /\ token = held)
              => (token' = Null /\ out'[c] = Return(Null))]_vars

\* C19 witness: a getCurrentUser has failed and the store is empty, while a
\* getMessages request sent with the token the store held is still in flight.
C19_Witness ==
    \E c \in Calls :
        /\ Done(c) /\ op[c] = "getCurrentUser" /\ RequestFailed(net[c])
        /\ out[c] = Return(Null) /\ token = Null
        /\ \E d \in Calls :
              /\ InFlight(d) /\ op[d] = "getMessages"
              /\ Get(Headers(d), "Authorization") = "Bearer xyz"

(***************************************************************************)
(* Completion                                                              *)
(***************************************************************************)
\* The call leaves its await in this step.
LeavesAwait(c) == pc[c] = "fetching" /\ pc'[c] # "fetching"

\* C20: when every request is answered in the end, a call that awaits its
\* response ends, on the one request it made, and a logout that awaits its
\* response ends with the store cleared; and a call leaves its await in no
\* other step than the one that delivers an outcome of its request, in which
\* a logout's clear runs: nothing times a request out or cancels it.
C20_CompletesWhenAnswered ==
    /\ \A c \in Calls : InFlight(c) ~> (Done(c) /\ sent[c] = 1)
    /\ \A c \in Calls :
          (InFlight(c) /\ op[c] = "logout")
              ~> (Done(c) /\ op[c] = "logout" /\ token = Null)
    /\ [][\A c \in Calls :
            LeavesAwait(c) =>
                /\ pc'[c] = "done"
                /\ net'[c] \in NetOutcomes(op[c])
                /\ op[c] = "logout" => token' = Null]_vars

\* C20 witness: a logout whose request got no response has ended, after one
\* request, with the token that was in the store cleared, while another
\* request sent with that token still awaits its response.
C20_Witness ==
    \E c, d \in Calls :
        /\ Done(c) /\ op[c] = "logout" /\ net[c].failed /\ sent[c] = 1
        /\ token = Null
        /\ InFlight(d) /\ op[d] \in ChatOps
        /\ Get(Headers(d), "Authorization") = "Bearer abc"

====
